---- MODULE Spec2Model ----
(***************************************************************************)
(* Cartago seismic viewer (src/app.js): the mode controller, the timers    *)
(* and per-frame closures it starts, the particle bursts and the pointer   *)
(* handlers, as a state machine.                                           *)
(*                                                                         *)
(* src/app.js holds two variants of CartagoResilienteApp: the flat "map"   *)
(* variant (lines 1-871) and the "planet" variant (lines 873-1687).  The   *)
(* variable `variant` says which one runs; every constant and handler that *)
(* differs between them takes it as a parameter.                           *)
(*                                                                         *)
(* Units.  Times are milliseconds.  Scales and opacities are thousandths   *)
(* (1000 is the JavaScript value 1, 900 is 0.9).  Positions are the        *)
(* marker's y coordinate in thousandths; x and z are written only by       *)
(* position.copy(originalPosition), which rewrites the values they         *)
(* already have, so y decides every comparison with the resting position.  *)
(* Magnitudes are hundredths (340 is 3.4); a magnitude passed to           *)
(* createParticleExplosion is in two-hundredths, so that half a magnitude  *)
(* is still an integer.  A burst's life is in 1/2000 (2000 is 1.0), so     *)
(* that life -= deltaTime * 0.5 with deltaTime in seconds is life minus    *)
(* the milliseconds elapsed.                                               *)
(*                                                                         *)
(* Left out.  The camera, the depth lines, the starfield, the DOM panel    *)
(* and the click confetti are not state of the model: a camera move is     *)
(* kept only as the per-frame closure it registers, and the achievement    *)
(* banner only as the number of times it was shown.  Floating-point        *)
(* rounding is not modelled, and Math.sin is a rational approximation.     *)
(* The awaits of init() are the values of `phase`.  A frame runs every     *)
(* callback registered before it began as one step.  Time passes in steps  *)
(* of TimeSteps; a timer that is due is called before more time passes.    *)
(***************************************************************************)
EXTENDS Integers, Sequences, FiniteSets, TLC

VARIABLES
    variant,          \* "map" | "planet": which CartagoResilienteApp runs
    file,             \* public/sismos_cartago.csv: its lines after the header
    phase,            \* position of init(): init, loaded, built, listening, running
    earthquakes,      \* this.earthquakes
    markers,          \* this.earthquakeMarkers: scale, y, opacity and userData of each
    particleSystems,  \* this.particleSystems
    currentMode,      \* this.currentMode
    modeInterval,     \* this.modeInterval: 0 is null, else the interval timer's id
    historyIndex,     \* this.historyIndex
    hoveredMarker,    \* this.hoveredMarker: 0 is null, else the marker's index
    timers,           \* pending setTimeout / setInterval callbacks, by due time
    raf,              \* callbacks registered with requestAnimationFrame for the next frame
    sinceFrame,       \* Date.now() - this.lastTime, capped at LifeFull
    activation,       \* not in the program: the number of calls of setMode so far
    pointerEvents,    \* not in the program: the number of pointer events so far
    fetch,            \* the fetch of loadEarthquakeData: pending, ok or failed
    clickCount,       \* this.clickCount
    achievements,     \* the number of calls of showAchievement so far
    hoveredClicks,    \* not in the program: the number of clicks on a hovered marker so far
    streak            \* not in the program: the hovered clicks since the last click that
                      \* hit no marker

vars == <<variant, file, phase, earthquakes, markers, particleSystems, currentMode,
          modeInterval, historyIndex, hoveredMarker, timers, raf, sinceFrame,
          activation, pointerEvents, fetch, clickCount, achievements,
          hoveredClicks, streak>>

\* what onClick writes, and what the model notes about the clicks
clickVars == <<clickCount, achievements, hoveredClicks, streak>>

-----------------------------------------------------------------------------
(* Bounds of the model *)

\* at most this many rows are read from the data file
MaxMarkers == 2
\* at most this many setTimeout / setInterval callbacks are pending at once
MaxTimers == 2
\* at most this many requestAnimationFrame callbacks are registered at once
MaxRaf == 3
\* at most this many bursts are in particleSystems at once
MaxBursts == 2
\* at most this many calls of setMode in one run
MaxActivations == 3
\* at most this many pointer events (moves, double clicks) in one run
MaxPointerEvents == 2
\* clicks on a hovered marker in a run
MaxClicks == 21
\* the largest depth of a record, in km, where the depths are drawn
MaxDepth == 80
\* the largest magnitude of a record, in hundredths, where the magnitudes are
\* drawn
MaxMagnitude == 350
\* the largest number of lines after the header, where the files are drawn
MaxLines == 4

\* the amounts by which the clock advances in one step
TimeSteps == {750}

\* the values Math.random() takes where it decides a pulse period (500 + r * 500)
PulseDurations == {500}
\* the values Math.random() * 3000 takes where it decides a Chaos burst's delay
ChaosDelays == {750}
\* the window of that delay: Math.random() * 3000
ChaosWindow == 3000

Variants == {"map", "planet"}
Modes == {"explorer", "history", "chaos", "rain"}

\* rows of public/sismos_cartago.csv after the header: latitude and longitude
\* in tenths of a degree, depth in km, magnitude in hundredths
FileRows ==
    << [latitud |-> 47, longitud |-> -759, profundidad |-> 10,  magnitud |-> 85],
       [latitud |-> 48, longitud |-> -760, profundidad |-> 40,  magnitud |-> 170],
       [latitud |-> 46, longitud |-> -758, profundidad |-> 100, magnitud |-> 340],
       [latitud |-> 47, longitud |-> -761, profundidad |-> 20,  magnitud |-> 255] >>

-----------------------------------------------------------------------------
(* Arithmetic helpers *)

Min(a, b) == IF a <= b THEN a ELSE b
Max(a, b) == IF a >= b THEN a ELSE b

RECURSIVE Gcd(_, _)
Gcd(a, b) == IF b = 0 THEN a ELSE Gcd(b, a % b)

\* Math.sin(p * Math.PI) in thousandths for p = n / d in [0, 1], by Bhaskara's
\* rational approximation 16 p (1 - p) / (5 - 4 p (1 - p)); exact at 0, 1/2 and 1
SinPi(n, d) ==
    LET g == Gcd(d, n)
        a == n \div g
        b == d \div g
        q == a * (b - a)
    IN  (16000 * q) \div (5 * b * b - 4 * q)

-----------------------------------------------------------------------------
(* The file and its loader.  A text is a sequence of characters, each a    *)
(* string of length one.  The numbers of a record are fixed-point: latitud  *)
(* and longitud in tenths, profundidad in units, magnitud in hundredths.    *)

DigitChars == <<"0", "1", "2", "3", "4", "5", "6", "7", "8", "9">>

IsDigit(c) == \E d \in 0..9 : DigitChars[d + 1] = c
DigitOf(c) == CHOOSE d \in 0..9 : DigitChars[d + 1] = c

\* the characters String.prototype.trim and parseFloat take for white space
IsSpace(c) == c \in {" ", "\t", "\r", "\n"}

RECURSIVE Pow10(_)
Pow10(d) == IF d = 0 THEN 1 ELSE 10 * Pow10(d - 1)

\* the decimal digits of n >= 0
RECURSIVE Digits(_)
Digits(n) ==
    IF n < 10 THEN <<DigitChars[n + 1]>>
    ELSE Digits(n \div 10) \o <<DigitChars[(n % 10) + 1]>>

\* the last d decimal digits of n >= 0
RECURSIVE LastDigits(_, _)
LastDigits(n, d) ==
    IF d = 0 THEN <<>>
    ELSE LastDigits(n \div 10, d - 1) \o <<DigitChars[(n % 10) + 1]>>

\* how the file writes the number n / 10^d: 47 in tenths is 4.7, -759 in
\* tenths is -75.9, 10 in units is 10, 85 in hundredths is 0.85
Decimal(n, d) ==
    LET a == IF n < 0 THEN -n ELSE n
    IN  (IF n < 0 THEN <<"-">> ELSE <<>>)
            \o Digits(a \div Pow10(d))
            \o (IF d = 0 THEN <<>> ELSE <<".">> \o LastDigits(a % Pow10(d), d))

\* Array.prototype.join(sep) of texts
RECURSIVE Join(_, _)
Join(texts, sep) ==
    IF texts = <<>> THEN <<>>
    ELSE IF Len(texts) = 1 THEN texts[1]
    ELSE texts[1] \o <<sep>> \o Join(Tail(texts), sep)

\* the header row of the file
HeaderLine ==
    Join(<< <<"i", "d">>, <<"f", "e", "c", "h", "a">>, <<"h", "o", "r", "a">>,
            <<"l", "a", "t">>, <<"l", "o", "n">>, <<"p", "r", "o", "f">>,
            <<"m", "a", "g">>, <<"d", "e", "p">>, <<"m", "u", "n">> >>, ";")

\* the line of the file for a record: id;fecha;hora;latitud;longitud;
\* profundidad;magnitud;departamento;municipio
RowLine(quake) ==
    Join(<< <<"7">>,
            <<"2", "0", "1", "9", "-", "0", "3", "-", "2", "3">>,
            <<"1", "4", ":", "2", "1">>,
            Decimal(quake.latitud, 1),
            Decimal(quake.longitud, 1),
            Decimal(quake.profundidad, 0),
            Decimal(quake.magnitud, 2),
            <<"V", "A", "L", "L", "E">>,
            <<"C", "A", "R", "T", "A", "G", "O">> >>, ";")

\* A line of the file after the header: row is <<>> for a line without a
\* record and <<quake>> for the line of a record; pad is the white space that
\* ends the line ("\r" in a file with CRLF line ends).
FileLine(row, pad) == [row |-> row, pad |-> pad]

LineText(line) ==
    (IF line.row = <<>> THEN <<>> ELSE RowLine(line.row[1])) \o line.pad

\* response.text(): the header and the lines, "\n" between them
TextOf(lines) ==
    Join(<<HeaderLine>> \o [k \in 1..Len(lines) |-> LineText(lines[k])], "\n")

\* the records the lines of a file are written from, in the order of the file
RECURSIVE RowsOf(_)
RowsOf(lines) ==
    IF lines = <<>> THEN <<>> ELSE Head(lines).row \o RowsOf(Tail(lines))

\* a file of the given records that ends with a line end
FileOf(rows) ==
    [k \in 1..Len(rows) |-> FileLine(<<rows[k]>>, <<>>)]
        \o <<FileLine(<<>>, <<>>)>>

\* String.prototype.split(sep)
RECURSIVE split(_, _)
split(s, sep) ==
    IF \A k \in 1..Len(s) : s[k] # sep THEN <<s>>
    ELSE LET k == CHOOSE j \in 1..Len(s) :
                      s[j] = sep /\ \A h \in 1..(j - 1) : s[h] # sep
         IN  <<SubSeq(s, 1, k - 1)>> \o split(SubSeq(s, k + 1, Len(s)), sep)

RECURSIVE trimStart(_)
trimStart(s) ==
    IF s # <<>> /\ IsSpace(Head(s)) THEN trimStart(Tail(s)) ELSE s

RECURSIVE trimEnd(_)
trimEnd(s) ==
    IF s # <<>> /\ IsSpace(s[Len(s)]) THEN trimEnd(SubSeq(s, 1, Len(s) - 1))
    ELSE s

\* String.prototype.trim()
trim(s) == trimEnd(trimStart(s))

\* the digits s begins with
RECURSIVE DigitRun(_)
DigitRun(s) ==
    IF s # <<>> /\ IsDigit(Head(s)) THEN <<Head(s)>> \o DigitRun(Tail(s))
    ELSE <<>>

\* the number a text of digits writes
RECURSIVE NumberOf(_)
NumberOf(ds) ==
    IF ds = <<>> THEN 0
    ELSE 10 * NumberOf(SubSeq(ds, 1, Len(ds) - 1)) + DigitOf(ds[Len(ds)])

\* parseFloat(s) for decimal literals without exponent: white space, a sign,
\* digits, a point and digits are read and the rest of s is ignored; the
\* result is the number m / 10^d, or NaN when no digit was read
parseFloat(s) ==
    LET t    == trimStart(s)
        neg  == t # <<>> /\ Head(t) = "-"
        u    == IF t # <<>> /\ Head(t) \in {"-", "+"} THEN Tail(t) ELSE t
        int  == DigitRun(u)
        r    == SubSeq(u, Len(int) + 1, Len(u))
        frac == IF r # <<>> /\ Head(r) = "." THEN DigitRun(Tail(r)) ELSE <<>>
        m    == NumberOf(int \o frac)
    IN  [nan |-> int = <<>> /\ frac = <<>>,
         m   |-> IF neg THEN -m ELSE m,
         d   |-> Len(frac)]

NaN == "NaN"

\* the number x in the unit 10^-d of its field (digits beyond are cut)
Fixed(x, d) ==
    IF x.nan THEN NaN
    ELSE IF x.d <= d THEN x.m * Pow10(d - x.d)
    ELSE IF x.m >= 0 THEN x.m \div Pow10(x.d - d)
    ELSE -((-x.m) \div Pow10(x.d - d))

\* parts[i], i counted from 0: undefined, which parseFloat reads as the text
\* "undefined", when the line has no such field
Part(parts, i) ==
    IF i < Len(parts) THEN parts[i + 1]
    ELSE <<"u", "n", "d", "e", "f", "i", "n", "e", "d">>

\* the callback of map with the fields one place to the left: parts[2..5]
RecordOfLineShifted(line) ==
    LET parts == split(line, ";")
    IN  [latitud     |-> Fixed(parseFloat(Part(parts, 2)), 1),
         longitud    |-> Fixed(parseFloat(Part(parts, 3)), 1),
         profundidad |-> Fixed(parseFloat(Part(parts, 4)), 0),
         magnitud    |-> Fixed(parseFloat(Part(parts, 5)), 2)]

\* the callback of map: the record of a line, of which the model keeps the
\* four numbers
RecordOfLine(line) ==
    LET parts == split(line, ";")
    IN  [latitud     |-> Fixed(parseFloat(Part(parts, 3)), 1),
         longitud    |-> Fixed(parseFloat(Part(parts, 4)), 1),
         profundidad |-> Fixed(parseFloat(Part(parts, 5)), 0),
         magnitud    |-> Fixed(parseFloat(Part(parts, 6)), 2)]

\* text.split('\n').slice(1).filter(line => line.trim()).map(...)
ParseText(text) ==
    LET lines == Tail(split(text, "\n"))
        kept  == SelectSeq(lines, LAMBDA line : trim(line) # <<>>)
    IN  [k \in 1..Len(kept) |-> RecordOfLine(kept[k])]

\* the records of a table of three rows: depths 10, 40 and 100, magnitudes 1.0,
\* 2.0 and 3.4
ScenarioRows ==
    << [FileRows[1] EXCEPT !.magnitud = 100],
       [FileRows[2] EXCEPT !.magnitud = 200],
       FileRows[3] >>

\* the lines the drawn files are made of: lines without a record that are
\* empty, a blank or a carriage return, and the lines of the three records,
\* ended by carriage return and line feed
LoadLines ==
    {FileLine(<<>>, pad) : pad \in {<<>>, <<" ">>, <<"\r">>}}
        \cup {FileLine(<<ScenarioRows[r]>>, <<"\r">>) : r \in 1..Len(ScenarioRows)}

\* the files the program is run over: the first rows of FileRows, and up to
\* MaxLines of LoadLines
MainFiles == {FileOf(SubSeq(FileRows, 1, n)) : n \in 0..MaxMarkers}
LoadFiles == UNION {[1..n -> LoadLines] : n \in 0..MaxLines}

\* this.earthquakes after loadEarthquakeData has read the file, for each file
\* (@@ <<>> leaves the function as it is: with it the model checker computes the
\* table once, before the run)
Loaded ==
    [f \in MainFiles \cup LoadFiles |-> ParseText(TextOf(f))] @@ <<>>

-----------------------------------------------------------------------------
(* Constants of the two variants *)

\* period of the History interval: setInterval(..., 120) / setInterval(..., 150)
HistoryPeriod(v) == IF v = "map" THEN 120 ELSE 150
\* Rain start height of marker 0: 80 / 20
RainBaseY(v) == IF v = "map" THEN 80000 ELSE 20000
\* Rain start height added per index: 0.5 / 0.3
RainStepY(v) == IF v = "map" THEN 500 ELSE 300
\* Rain start delay per index: index * 30 / index * 50
RainStagger(v) == IF v = "map" THEN 30 ELSE 50
\* shortest fall duration: 1500 / 2000
FallBase(v) == IF v = "map" THEN 1500 ELSE 2000
\* amplitude of the Chaos pulse: 0.7 / 0.5
PulseAmp(v) == IF v = "map" THEN 700 ELSE 500
\* scale of the hovered marker: 2 / 1.8
HoverScale(v) == IF v = "map" THEN 2000 ELSE 1800
\* delay of the double-click burst and duration of its camera move: 1000 / 1500
DblClickDelay(v) == IF v = "map" THEN 1000 ELSE 1500
\* duration of the camera move of a History tick (planet variant only): 0.5 s
HistoryMoveDuration == 500
\* material.opacity of a marker that is shown
OpacityVisible == 900
\* material.opacity of a marker History has not revealed yet
OpacityLow == 100
\* userData.life of a new burst (1.0)
LifeFull == 2000
\* the magnitude the sizes and fall durations are scaled by (3.4)
MagnitudeMax == 340

-----------------------------------------------------------------------------
(* Pure functions of a record *)

\* getColorByDepth with depth <= 20 for depth < 20
getColorByDepthInclusive(depth) ==
    IF depth <= 20 THEN "ff4444"
    ELSE IF depth < 60 THEN "ffaa00"
    ELSE "4444ff"

\* getColorByDepth(depth)
getColorByDepth(depth) ==
    IF depth < 20 THEN "ff4444"
    ELSE IF depth < 60 THEN "ffaa00"
    ELSE "4444ff"

\* depthToY(depth) = -(depth / 150) * 50
depthToY(depth) == -((depth * 50000) \div 150)

\* y of the resting position: depthToY(profundidad) on the map, radius * cos(phi)
\* with phi = (90 - latitud) degrees on the planet
RestY(v, quake) ==
    IF v = "map" THEN depthToY(quake.profundidad)
    ELSE (5150 * SinPi(quake.latitud, 1800)) \div 1000

\* MarkerSize with magnitud % 100 for magnitud: the size of the fraction alone
MarkerSizeOfFraction(v, quake) ==
    IF v = "map" THEN 300 + ((quake.magnitud % 100) * 800) \div MagnitudeMax
    ELSE 80 + ((quake.magnitud % 100) * 250) \div MagnitudeMax

\* size = 0.3 + (magnitud / 3.4) * 0.8  /  0.08 + (magnitud / 3.4) * 0.25
MarkerSize(v, quake) ==
    IF v = "map" THEN 300 + (quake.magnitud * 800) \div MagnitudeMax
    ELSE 80 + (quake.magnitud * 250) \div MagnitudeMax

\* startY = 80 + index * 0.5 / 20 + index * 0.3, index counted from 0
RainStartY(v, index) == RainBaseY(v) + index * RainStepY(v)

\* fallDuration = base + (magnitud / 3.4) * base, as the fraction num / den
FallDurationNum(v, quake) == FallBase(v) * (MagnitudeMax + quake.magnitud)
FallDurationDen == MagnitudeMax

\* the least whole number of milliseconds that is >= fallDuration
FallElapsedCap(v, quake) ==
    (FallDurationNum(v, quake) + FallDurationDen - 1) \div FallDurationDen

\* progress = Math.min(elapsed / fallDuration, 1) as a reduced fraction <<n, d>>
FallProgress(v, quake, elapsed) ==
    LET n == elapsed * FallDurationDen
        d == FallDurationNum(v, quake)
        g == Gcd(d, n)
    IN  IF n >= d THEN <<1, 1>> ELSE <<n \div g, d \div g>>

\* startY + (targetY - startY) * eased, eased = progress * progress
FallY(startY, targetY, progress) ==
    startY + ((targetY - startY) * progress[1] * progress[1])
                 \div (progress[2] * progress[2])

\* scale = 1 + Math.sin(progress * Math.PI) * amp, progress = (elapsed % duration) / duration
PulseScale(v, elapsed, duration) ==
    1000 + (SinPi(elapsed % duration, duration) * PulseAmp(v)) \div 1000

\* ParticleCount with Math.round for Math.floor
ParticleCountRounded(magnitude) == (magnitude * 100 + 100) \div 200

\* particleCount = Math.floor(magnitude * 100), magnitude in two-hundredths
ParticleCount(magnitude) == (magnitude * 100) \div 200

-----------------------------------------------------------------------------
(* Markers *)

\* one mesh of createEarthquakeMarkers: scale 1, at its position, opacity 0.9
NewMarker(v, quake) ==
    [ scale    |-> 1000,
      y        |-> RestY(v, quake),
      opacity  |-> OpacityVisible,
      userData |-> [ quake            |-> quake,
                     originalColor    |-> getColorByDepth(quake.profundidad),
                     originalScale    |-> MarkerSize(v, quake),
                     originalPosition |-> RestY(v, quake) ] ]

\* createEarthquakeMarkers that passes over the first record
createEarthquakeMarkersSkipsFirst(v, quakes) ==
    [i \in 1..(Len(quakes) - 1) |-> NewMarker(v, quakes[i + 1])]

\* this.earthquakes.forEach(quake => { ...; this.earthquakeMarkers.push(mesh) })
createEarthquakeMarkers(v, quakes) ==
    [i \in 1..Len(quakes) |-> NewMarker(v, quakes[i])]

-----------------------------------------------------------------------------
(* The application state a handler reads and writes, as one record.  `over`  *)
(* is set when a handler would exceed a bound of the model; a step whose     *)
(* result has it set is not taken.                                           *)

App ==
    [ currentMode     |-> currentMode,
      modeInterval    |-> modeInterval,
      historyIndex    |-> historyIndex,
      hoveredMarker   |-> hoveredMarker,
      markers         |-> markers,
      particleSystems |-> particleSystems,
      timers          |-> timers,
      raf             |-> raf,
      activation      |-> activation,
      clickCount      |-> clickCount,
      achievements    |-> achievements,
      hoveredClicks   |-> hoveredClicks,
      streak          |-> streak,
      over            |-> FALSE ]

\* A pending setTimeout / setInterval callback.  kind: "historyTick" (the
\* interval of startHistoryMode), "chaosBurst", "rainStart", "dblBurst".
\* rem: milliseconds until it is due (0: due).  id: the interval's id, 0 for a
\* timeout.  gen does not exist in the program: it is the number of the mode
\* activation (call of setMode) that started the callback, 0 when none did.
\* marker of a "dblBurst" does not exist in the program either: it is the marker
\* that was hovered when the double click came.
Timer(kind, id, marker, rem, gen) ==
    [kind |-> kind, id |-> id, marker |-> marker, rem |-> rem, gen |-> gen]

\* A closure registered with requestAnimationFrame.  kind: "animate", "pulse",
\* "fall", "move".  elapsed: Date.now() - startTime of the closure (for a pulse
\* modulo its duration, for a fall or move capped where progress is 1).
\* gen and left do not exist in the program: gen is the number of the mode
\* activation that started the closure, and left says that setMode has since
\* switched to a mode other than the closure's own.
Closure(kind, marker, duration, startY, gen) ==
    [kind |-> kind, marker |-> marker, elapsed |-> 0, duration |-> duration,
     startY |-> startY, gen |-> gen, left |-> FALSE]

\* setTimeout(callback, delay) / setInterval(callback, period): callbacks run in
\* the order of their due times, and in the order registered when those are equal
RECURSIVE InsertByDue(_, _)
InsertByDue(q, t) ==
    IF q = <<>> THEN <<t>>
    ELSE IF Head(q).rem <= t.rem THEN <<Head(q)>> \o InsertByDue(Tail(q), t)
    ELSE <<t>> \o q

setTimer(a, t) ==
    [a EXCEPT !.timers = InsertByDue(@, t),
              !.over = @ \/ Len(a.timers) >= MaxTimers]

\* clearInterval(id)
clearInterval(a, id) ==
    [a EXCEPT !.timers = SelectSeq(@, LAMBDA t : t.id # id)]

\* the id setInterval returns: one no live interval has
NewIntervalId(a) ==
    LET used == {a.timers[k].id : k \in 1..Len(a.timers)}
    IN  CHOOSE n \in 1..(Len(a.timers) + 1) : n \notin used

\* requestAnimationFrame(callback)
requestAnimationFrame(a, c) ==
    [a EXCEPT !.raf = Append(@, c),
              !.over = @ \/ Len(a.raf) >= MaxRaf]

-----------------------------------------------------------------------------
(* Particle bursts *)

\* createParticleExplosion that pushes nothing while a burst is active
createParticleExplosionCapped(a, position, magnitude, depth, by, of) ==
    IF a.particleSystems # <<>> THEN a
    ELSE [a EXCEPT !.particleSystems =
                       Append(@, [ count  |-> Max(ParticleCount(magnitude), 0),
                                   color  |-> getColorByDepth(depth),
                                   origin |-> position,
                                   life   |-> LifeFull,
                                   by     |-> by,
                                   of     |-> of ])]

\* createParticleExplosion(position, magnitude, depth): one Points object with
\* particleCount particles, life 1.0, pushed on particleSystems.  by / of do not
\* exist in the program: they record the call site and the marker of the call.
createParticleExplosion(a, position, magnitude, depth, by, of) ==
    [a EXCEPT !.particleSystems =
                  Append(@, [ count  |-> Max(ParticleCount(magnitude), 0),
                              color  |-> getColorByDepth(depth),
                              origin |-> position,
                              life   |-> LifeFull,
                              by     |-> by,
                              of     |-> of ]),
              !.over = @ \/ Len(a.particleSystems) >= MaxBursts]

\* UpdateFrom that removes a burst when life < 0 instead of life <= 0
RECURSIVE UpdateFromStrict(_, _, _)
UpdateFromStrict(ps, i, deltaTime) ==
    IF i < 1 THEN ps
    ELSE LET life == ps[i].life - deltaTime
             upd  == [ps EXCEPT ![i].life = life]
         IN  IF life < 0
             THEN UpdateFromStrict(SubSeq(upd, 1, i - 1)
                                       \o SubSeq(upd, i + 1, Len(upd)),
                                   i - 1, deltaTime)
             ELSE UpdateFromStrict(upd, i - 1, deltaTime)

\* UpdateFrom that passes over the burst below one it removes
RECURSIVE UpdateFromSkipping(_, _, _)
UpdateFromSkipping(ps, i, deltaTime) ==
    IF i < 1 THEN ps
    ELSE LET life == ps[i].life - deltaTime
             upd  == [ps EXCEPT ![i].life = life]
         IN  IF life <= 0
             THEN UpdateFromSkipping(SubSeq(upd, 1, i - 1)
                                         \o SubSeq(upd, i + 1, Len(upd)),
                                     i - 2, deltaTime)
             ELSE UpdateFromSkipping(upd, i - 1, deltaTime)

\* the body of the loop of updateParticles for index i, then the indices below i
RECURSIVE UpdateFrom(_, _, _)
UpdateFrom(ps, i, deltaTime) ==
    IF i < 1 THEN ps
    ELSE LET life == ps[i].life - deltaTime
             upd  == [ps EXCEPT ![i].life = life]
         IN  IF life <= 0
             THEN UpdateFrom(SubSeq(upd, 1, i - 1) \o SubSeq(upd, i + 1, Len(upd)),
                             i - 1, deltaTime)
             ELSE UpdateFrom(upd, i - 1, deltaTime)

\* updateParticles(deltaTime): for (i = length - 1; i >= 0; i--) { ... splice(i, 1) }
updateParticles(a, deltaTime) ==
    [a EXCEPT !.particleSystems = UpdateFrom(@, Len(@), deltaTime)]

-----------------------------------------------------------------------------
(* Mode controller *)

Quake(a, i) == a.markers[i].userData.quake
OriginalPosition(a, i) == a.markers[i].userData.originalPosition

\* not in the program: task t was started by a mode activation before the
\* current one
Stale(a, t) == t.gen # 0 /\ t.gen < a.activation

\* what Math.random() decides for one marker in startChaosMode: the pulse
\* period, whether Math.random() > 0.95, and the delay of the burst
ChaosRolls ==
    {[duration |-> d, burst |-> FALSE, delay |-> 0] : d \in PulseDurations}
    \cup [duration : PulseDurations, burst : {TRUE}, delay : ChaosDelays]

\* the rolls of one call of setMode(mode): one per marker in startChaosMode,
\* none in the other modes
RollsFor(mode, n) == IF mode = "chaos" THEN [1..n -> ChaosRolls] ELSE {<<>>}

\* ResetMarker without material.opacity = 0.9
ResetMarkerKeepsOpacity(m) ==
    [m EXCEPT !.scale = 1000, !.y = m.userData.originalPosition]

\* ResetMarker that caches the position it finds as the resting position
ResetMarkerRebases(m) ==
    [m EXCEPT !.scale = 1000, !.opacity = OpacityVisible,
              !.userData.originalPosition = m.y]

\* ResetMarker without position.copy(originalPosition): a variant of the program
\* that the properties of the reset must reject
ResetMarkerKeepsPosition(m) ==
    [m EXCEPT !.scale = 1000, !.opacity = OpacityVisible]

\* the forEach of setMode: scale.set(1, 1, 1); position.copy(originalPosition);
\* material.opacity = 0.9
ResetMarker(m) ==
    [m EXCEPT !.scale = 1000, !.y = m.userData.originalPosition,
              !.opacity = OpacityVisible]

ResetMarkers(ms) == [i \in 1..Len(ms) |-> ResetMarker(ms[i])]

\* m.material.opacity = 0.1 for every marker
DimMarkers(ms) == [i \in 1..Len(ms) |-> [ms[i] EXCEPT !.opacity = OpacityLow]]

\* startHistoryMode(): dim every marker, historyIndex = 0, start the interval
startHistoryMode(a) ==
    LET b  == [a EXCEPT !.markers = DimMarkers(@), !.historyIndex = 0]
        id == NewIntervalId(b)
    IN  [setTimer(b, Timer("historyTick", id, 0, HistoryPeriod(variant), a.activation))
            EXCEPT !.modeInterval = id]

\* pulse without the test of currentMode
pulseUnchecked(a, c) ==
    requestAnimationFrame(
        [a EXCEPT !.markers[c.marker].scale =
                      PulseScale(variant, c.elapsed, c.duration)],
        c)

\* the closure pulse of startChaosMode / animateMarkerPulse, called or resumed
pulse(a, c) ==
    IF a.currentMode # "chaos" THEN a
    ELSE requestAnimationFrame(
             [a EXCEPT !.markers[c.marker].scale =
                           PulseScale(variant, c.elapsed, c.duration)],
             c)

\* startChaosMode() for the markers from index i on
RECURSIVE ChaosFrom(_, _, _)
ChaosFrom(a, i, rolls) ==
    IF i > Len(a.markers) THEN a
    ELSE LET b == pulse(a, Closure("pulse", i, rolls[i].duration, 0, a.activation))
             c == IF rolls[i].burst
                  THEN setTimer(b, Timer("chaosBurst", 0, i, rolls[i].delay,
                                         a.activation))
                  ELSE b
         IN  ChaosFrom(c, i + 1, rolls)

startChaosMode(a, rolls) == ChaosFrom(a, 1, rolls)

\* startRainMode() for the markers from index i on (index i - 1 in the program)
RECURSIVE RainFrom(_, _)
RainFrom(a, i) ==
    IF i > Len(a.markers) THEN a
    ELSE RainFrom(
             setTimer([a EXCEPT !.markers[i].y = RainStartY(variant, i - 1)],
                      Timer("rainStart", 0, i, (i - 1) * RainStagger(variant),
                            a.activation)),
             i + 1)

startRainMode(a) == RainFrom(a, 1)

\* the behaviour setMode starts after the reset
StartMode(a, mode, rolls) ==
    IF mode = "history" THEN startHistoryMode(a)
    ELSE IF mode = "chaos" THEN startChaosMode(a, rolls)
    ELSE IF mode = "rain" THEN startRainMode(a)
    ELSE a

\* clearModeInterval that forgets the id and leaves the interval running
clearModeIntervalForgets(a) == [a EXCEPT !.modeInterval = 0]

\* if (this.modeInterval) { clearInterval(this.modeInterval); this.modeInterval = null }
clearModeInterval(a) ==
    IF a.modeInterval # 0
    THEN [clearInterval(a, a.modeInterval) EXCEPT !.modeInterval = 0]
    ELSE a

\* not in the program: the closures of a mode other than `mode` are noted as
\* left behind by a switch to `mode`
MarkLeft(cs, mode) ==
    [k \in 1..Len(cs) |->
        IF \/ cs[k].kind = "fall" /\ mode # "rain"
           \/ cs[k].kind = "pulse" /\ mode # "chaos"
        THEN [cs[k] EXCEPT !.left = TRUE]
        ELSE cs[k]]

\* setMode(mode)
setMode(a, mode, rolls) ==
    LET b == clearModeInterval(a)
        c == [b EXCEPT !.currentMode = mode,
                       !.markers = ResetMarkers(@),
                       !.raf = MarkLeft(@, mode),
                       !.activation = @ + 1,
                       !.over = @ \/ a.activation >= MaxActivations]
    IN  StartMode(c, mode, rolls)

-----------------------------------------------------------------------------
(* Timer callbacks and per-frame closures *)

\* the closure move of onDoubleClick / smoothCameraMove, called or resumed:
\* the camera is moved, and the closure registers itself while progress < 1
move(a, c) ==
    IF c.elapsed < c.duration THEN requestAnimationFrame(a, c) ELSE a

\* smoothCameraMove(targetPos, duration): builds the closure and calls it
smoothCameraMove(a, marker, duration, gen) ==
    move(a, Closure("move", marker, duration, 0, gen))

\* historyTick whose else branch starts the next cycle at historyIndex = 1
historyTickWrapsToOne(a, t) ==
    IF a.historyIndex < Len(a.markers)
    THEN LET i == a.historyIndex + 1
             b == createParticleExplosion(
                      [a EXCEPT !.markers[i].opacity = OpacityVisible],
                      OriginalPosition(a, i), 2 * Quake(a, i).magnitud,
                      Quake(a, i).profundidad, "history", i)
             c == IF variant = "planet"
                  THEN smoothCameraMove(b, i, HistoryMoveDuration, t.gen)
                  ELSE b
         IN  [c EXCEPT !.historyIndex = @ + 1]
    ELSE [a EXCEPT !.historyIndex = 1, !.markers = DimMarkers(@)]

\* historyTick whose else branch dims the markers and forgets historyIndex = 0
historyTickNoWrap(a, t) ==
    IF a.historyIndex < Len(a.markers)
    THEN LET i == a.historyIndex + 1
             b == createParticleExplosion(
                      [a EXCEPT !.markers[i].opacity = OpacityVisible],
                      OriginalPosition(a, i), 2 * Quake(a, i).magnitud,
                      Quake(a, i).profundidad, "history", i)
             c == IF variant = "planet"
                  THEN smoothCameraMove(b, i, HistoryMoveDuration, t.gen)
                  ELSE b
         IN  [c EXCEPT !.historyIndex = @ + 1]
    ELSE [a EXCEPT !.markers = DimMarkers(@)]


\* historyTick whose wrap leaves the opacities as they are
historyTickKeepsRevealed(a, t) ==
    IF a.historyIndex < Len(a.markers)
    THEN LET i == a.historyIndex + 1
             b == createParticleExplosion(
                      [a EXCEPT !.markers[i].opacity = OpacityVisible],
                      OriginalPosition(a, i), 2 * Quake(a, i).magnitud,
                      Quake(a, i).profundidad, "history", i)
             c == IF variant = "planet"
                  THEN smoothCameraMove(b, i, HistoryMoveDuration, t.gen)
                  ELSE b
         IN  [c EXCEPT !.historyIndex = @ + 1]
    ELSE [a EXCEPT !.historyIndex = 0]

\* the callback of the interval t of startHistoryMode
historyTick(a, t) ==
    IF a.historyIndex < Len(a.markers)
    THEN LET i == a.historyIndex + 1
             b == createParticleExplosion(
                      [a EXCEPT !.markers[i].opacity = OpacityVisible],
                      OriginalPosition(a, i), 2 * Quake(a, i).magnitud,
                      Quake(a, i).profundidad, "history", i)
             c == IF variant = "planet"
                  THEN smoothCameraMove(b, i, HistoryMoveDuration, t.gen)
                  ELSE b
         IN  [c EXCEPT !.historyIndex = @ + 1]
    ELSE [a EXCEPT !.historyIndex = 0, !.markers = DimMarkers(@)]

\* the callback of the setTimeout of startChaosMode: magnitud * 0.5
chaosBurst(a, i) ==
    createParticleExplosion(a, OriginalPosition(a, i), Quake(a, i).magnitud,
                            Quake(a, i).profundidad, "chaos", i)

\* fall that registers itself again at progress 1 as well
fallNeverLands(a, c) ==
    LET i == c.marker IN
    IF a.currentMode # "rain"
    THEN [a EXCEPT !.markers[i].y = OriginalPosition(a, i)]
    ELSE LET progress == FallProgress(variant, Quake(a, i), c.elapsed)
             b == [a EXCEPT !.markers[i].y =
                                FallY(c.startY, OriginalPosition(a, i), progress)]
         IN  requestAnimationFrame(b, c)

\* the closure fall of startRainMode / animateMarkerFall, called or resumed
fall(a, c) ==
    LET i == c.marker IN
    IF a.currentMode # "rain"
    THEN [a EXCEPT !.markers[i].y = OriginalPosition(a, i)]
    ELSE LET progress == FallProgress(variant, Quake(a, i), c.elapsed)
             b == [a EXCEPT !.markers[i].y =
                                FallY(c.startY, OriginalPosition(a, i), progress)]
         IN  IF progress = <<1, 1>>
             THEN [createParticleExplosion(b, OriginalPosition(a, i),
                                           2 * Quake(a, i).magnitud,
                                           Quake(a, i).profundidad, "rain", i)
                      EXCEPT !.markers[i].y = OriginalPosition(a, i)]
             ELSE requestAnimationFrame(b, c)

\* the callback of the setTimeout of startRainMode / animateMarkerFall: the map
\* variant's closure holds the startY computed by startRainMode, the planet
\* variant reads marker.position.y when the timeout fires
rainStart(a, t) ==
    LET i == t.marker
        startY == IF variant = "map" THEN RainStartY(variant, i - 1)
                  ELSE a.markers[i].y
    IN  fall(a, Closure("fall", i, 0, startY, t.gen))

\* the callback of the setTimeout of onDoubleClick reads
\* this.hoveredMarker.userData when it fires: a TypeError when hoveredMarker is
\* null by then
dblBurstThrows(a) == a.hoveredMarker = 0

\* the callback of the setTimeout of onDoubleClick: the burst is made for the
\* marker hovered when it fires; nothing is made when it throws
dblBurst(a) ==
    IF dblBurstThrows(a) THEN a
    ELSE LET i == a.hoveredMarker
         IN  createParticleExplosion(a, OriginalPosition(a, i),
                                     4 * Quake(a, i).magnitud,
                                     Quake(a, i).profundidad, "dblclick", i)

\* the callback of timer t
TimerCallback(a, t) ==
    IF t.kind = "historyTick" THEN historyTick(a, t)
    ELSE IF t.kind = "chaosBurst" THEN chaosBurst(a, t.marker)
    ELSE IF t.kind = "rainStart" THEN rainStart(a, t)
    ELSE dblBurst(a)

\* animate(): requestAnimationFrame(() => this.animate()); updateParticles(deltaTime)
animate(a, deltaTime) ==
    updateParticles(requestAnimationFrame(a, Closure("animate", 0, 0, 0, 0)),
                    deltaTime)

\* the closure c, resumed by a frame
FrameCallback(a, c, deltaTime) ==
    IF c.kind = "animate" THEN animate(a, deltaTime)
    ELSE IF c.kind = "pulse" THEN pulse(a, c)
    ELSE IF c.kind = "fall" THEN fall(a, c)
    ELSE move(a, c)

-----------------------------------------------------------------------------
(* Pointer and key handlers *)

\* onMouseMove(e): hit is intersects[0].object, 0 when nothing is hit
onMouseMove(a, hit) ==
    LET b == IF a.hoveredMarker # 0
             THEN [a EXCEPT !.markers[a.hoveredMarker].scale = 1000,
                            !.hoveredMarker = 0]
             ELSE a
    IN  IF hit # 0
        THEN [b EXCEPT !.hoveredMarker = hit,
                       !.markers[hit].scale = HoverScale(variant)]
        ELSE b

\* showAchievement(title, desc): the banner gets the class 'show'
showAchievement(a) == [a EXCEPT !.achievements = @ + 1]

\* onClick with clickCount > 10 for clickCount >= 10
onClickAfterTen(a) ==
    IF a.hoveredMarker # 0
    THEN LET b == [a EXCEPT !.clickCount = @ + 1,
                            !.hoveredClicks = @ + 1,
                            !.streak = @ + 1,
                            !.over = @ \/ a.hoveredClicks >= MaxClicks]
         IN  IF b.clickCount > 10
             THEN [showAchievement(b) EXCEPT !.clickCount = 0]
             ELSE b
    ELSE [a EXCEPT !.streak = 0]

\* onClick(e), the click listener of window: it also gets the clicks on the
\* mode buttons, which bubble up to window
onClick(a) ==
    IF a.hoveredMarker # 0
    THEN LET b == [a EXCEPT !.clickCount = @ + 1,
                            !.hoveredClicks = @ + 1,
                            !.streak = @ + 1,
                            !.over = @ \/ a.hoveredClicks >= MaxClicks]
         IN  IF b.clickCount >= 10
             THEN [showAchievement(b) EXCEPT !.clickCount = 0]
             ELSE b
    ELSE [a EXCEPT !.streak = 0]

\* onDoubleClick(e)
onDoubleClick(a) ==
    IF a.hoveredMarker = 0 THEN a
    ELSE setTimer(smoothCameraMove(a, a.hoveredMarker, DblClickDelay(variant), 0),
                  Timer("dblBurst", 0, a.hoveredMarker, DblClickDelay(variant), 0))

\* ModeOfKey with modes[key] for modes[key - 1]: key 4 gives undefined
ModeOfKeyOffByOne(key) ==
    IF key = 0 THEN "explorer"
    ELSE IF key = 1 THEN "history"
    ELSE IF key = 2 THEN "chaos"
    ELSE IF key = 3 THEN "rain"
    ELSE "none"

\* the mode of a digit key: modes[key - 1]
ModeOfKey(key) ==
    IF key = 1 THEN "explorer"
    ELSE IF key = 2 THEN "history"
    ELSE IF key = 3 THEN "chaos"
    ELSE IF key = 4 THEN "rain"
    ELSE "none"

\* the listeners a click on the button of mode runs: the button's own, which
\* calls setMode(btn.dataset.mode), then onClick at window
onModeButtonClick(a, mode, rolls) == onClick(setMode(a, mode, rolls))

\* the keydown listener: setMode(modes[key - 1]), then a click on the mode's
\* button
onKeyDown(a, key, rolls1, rolls2) ==
    IF key >= 1 /\ key <= 4
    THEN onModeButtonClick(setMode(a, ModeOfKey(key), rolls1), ModeOfKey(key), rolls2)
    ELSE a

-----------------------------------------------------------------------------
(* The state machine *)

\* the step that leaves the application state a
Apply(a) ==
    /\ ~a.over
    /\ currentMode' = a.currentMode
    /\ modeInterval' = a.modeInterval
    /\ historyIndex' = a.historyIndex
    /\ hoveredMarker' = a.hoveredMarker
    /\ markers' = a.markers
    /\ particleSystems' = a.particleSystems
    /\ timers' = a.timers
    /\ raf' = a.raf
    /\ activation' = a.activation
    /\ clickCount' = a.clickCount
    /\ achievements' = a.achievements
    /\ hoveredClicks' = a.hoveredClicks
    /\ streak' = a.streak

\* the constructor's fields, before init() has loaded anything
Init ==
    /\ variant \in Variants
    /\ file \in MainFiles
    /\ phase = "init"
    /\ earthquakes = <<>>
    /\ markers = <<>>
    /\ particleSystems = <<>>
    /\ currentMode = "explorer"
    /\ modeInterval = 0
    /\ historyIndex = 0
    /\ hoveredMarker = 0
    /\ timers = <<>>
    /\ raf = <<>>
    /\ sinceFrame = LifeFull
    /\ activation = 0
    /\ pointerEvents = 0
    /\ fetch = "pending"
    /\ clickCount = 0
    /\ achievements = 0
    /\ hoveredClicks = 0
    /\ streak = 0

\* loadEarthquakeData that is awaited again after a failure
LoadEarthquakeDataAgain ==
    /\ phase = "init"
    /\ \/ /\ fetch' = "ok"
          /\ phase' = "loaded"
          /\ earthquakes' = Loaded[file]
       \/ /\ fetch' = "failed"
          /\ phase' = phase
          /\ earthquakes' = earthquakes
    /\ UNCHANGED <<variant, file, clickVars, markers, particleSystems, currentMode,
                   modeInterval, historyIndex, hoveredMarker, timers, raf,
                   sinceFrame, activation, pointerEvents>>

\* await this.loadEarthquakeData(): the records of the file; or, when fetch() or
\* response.text() throws, the catch block logs the error and this.earthquakes
\* stays the constructor's []
LoadEarthquakeData ==
    /\ phase = "init"
    /\ phase' = "loaded"
    /\ \/ /\ fetch' = "ok"
          /\ earthquakes' = Loaded[file]
       \/ /\ fetch' = "failed"
          /\ earthquakes' = earthquakes
    /\ UNCHANGED <<variant, file, clickVars, markers, particleSystems, currentMode,
                   modeInterval, historyIndex, hoveredMarker, timers, raf,
                   sinceFrame, activation, pointerEvents>>

\* this.createEarthquakeMarkers()
CreateEarthquakeMarkers ==
    /\ phase = "loaded"
    /\ phase' = "built"
    /\ markers' = createEarthquakeMarkers(variant, earthquakes)
    /\ UNCHANGED <<variant, file, fetch, clickVars, earthquakes, particleSystems,
                   currentMode, modeInterval, historyIndex, hoveredMarker,
                   timers, raf, sinceFrame, activation, pointerEvents>>

\* this.setupEventListeners(); this.setupUI()
SetupEventListeners ==
    /\ phase = "built"
    /\ phase' = "listening"
    /\ UNCHANGED <<variant, file, fetch, clickVars, earthquakes, markers,
                   particleSystems, currentMode, modeInterval, historyIndex,
                   hoveredMarker, timers, raf, sinceFrame, activation,
                   pointerEvents>>

\* Listening where the listeners are installed by the constructor
ListeningFromStart == TRUE

\* an event handler can run: the listeners are installed
Listening == phase \in {"listening", "running"}

\* this.animate(), called by init() after the last delay: lastTime is still 0
StartAnimate ==
    /\ phase = "listening"
    /\ phase' = "running"
    /\ (\E a \in {animate(App, sinceFrame)} : Apply(a))
    /\ sinceFrame' = 0
    /\ UNCHANGED <<variant, file, fetch, earthquakes, pointerEvents>>

\* a click on the button of mode
ModeButton(mode) ==
    /\ Listening
    /\ activation < MaxActivations
    /\ \E rolls \in RollsFor(mode, Len(markers)) :
           \E a \in {onModeButtonClick(App, mode, rolls)} : Apply(a)
    /\ UNCHANGED <<variant, file, fetch, phase, earthquakes, sinceFrame,
                   pointerEvents>>

\* a key press
KeyDown(key) ==
    /\ Listening
    /\ (key >= 1 /\ key <= 4) => activation + 2 <= MaxActivations
    /\ \E rolls1, rolls2 \in RollsFor(ModeOfKey(key), Len(markers)) :
           \E a \in {onKeyDown(App, key, rolls1, rolls2)} : Apply(a)
    /\ UNCHANGED <<variant, file, fetch, phase, earthquakes, sinceFrame,
                   pointerEvents>>

\* not in the program: the step is a pointer event, one of at most n
Counted(n) ==
    /\ pointerEvents < n
    /\ pointerEvents' = pointerEvents + 1

\* the pointer moves; the ray hits marker hit first, or nothing
MouseMove(hit) ==
    /\ Listening
    /\ \E a \in {onMouseMove(App, hit)} : Apply(a)
    /\ UNCHANGED <<variant, file, fetch, phase, earthquakes, sinceFrame>>

\* a click that is not on a mode button
Click ==
    /\ Listening
    /\ \E a \in {onClick(App)} : Apply(a)
    /\ UNCHANGED <<variant, file, fetch, phase, earthquakes, sinceFrame,
                   pointerEvents>>

\* a double click: the dblclick event (the two click events before it are
\* steps of their own)
DoubleClick ==
    /\ Listening
    /\ \E a \in {onDoubleClick(App)} : Apply(a)
    /\ UNCHANGED <<variant, file, fetch, phase, earthquakes, sinceFrame>>

\* Date.now() - startTime of closure c after d more milliseconds
Later(c, d) ==
    IF c.kind = "pulse" THEN [c EXCEPT !.elapsed = (@ + d) % c.duration]
    ELSE IF c.kind = "fall"
    THEN [c EXCEPT !.elapsed =
                       Min(@ + d, FallElapsedCap(variant,
                                                 markers[c.marker].userData.quake))]
    ELSE IF c.kind = "move" THEN [c EXCEPT !.elapsed = Min(@ + d, c.duration)]
    ELSE c

\* a timer is due
TimerDue == timers # <<>> /\ Head(timers).rem = 0

\* d milliseconds pass while nothing runs.  A timer whose delay ends within d
\* is due after the step, and no more time passes until it has been called
\* (setTimeout promises no more than a minimum delay: the callback may run
\* late, after frames and events); the closures see d milliseconds more.
Advance(d) ==
    /\ ~TimerDue
    /\ timers' = [k \in 1..Len(timers) |->
                      [timers[k] EXCEPT !.rem = Max(@ - d, 0)]]
    /\ raf' = [k \in 1..Len(raf) |-> Later(raf[k], d)]
    /\ sinceFrame' = Min(sinceFrame + d, LifeFull)
    /\ UNCHANGED <<variant, file, fetch, clickVars, phase, earthquakes, markers,
                   particleSystems, currentMode, modeInterval, historyIndex,
                   hoveredMarker, activation, pointerEvents>>

\* the pending timer that is due first fires; an interval is armed again
TimerFire ==
    /\ TimerDue
    /\ LET t == Head(timers)
           a == TimerCallback([App EXCEPT !.timers = Tail(@)], t)
       IN  \E b \in {IF t.kind = "historyTick"
                    THEN setTimer(a, [t EXCEPT !.rem = HistoryPeriod(variant)])
                    ELSE a} : Apply(b)
    /\ UNCHANGED <<variant, file, fetch, phase, earthquakes, sinceFrame,
                   pointerEvents>>

\* the callbacks cs of a frame, called in the order they were registered
RECURSIVE RunFrame(_, _, _)
RunFrame(a, cs, deltaTime) ==
    IF cs = <<>> THEN a
    ELSE RunFrame(FrameCallback(a, Head(cs), deltaTime), Tail(cs), deltaTime)

\* a frame: the browser calls every callback registered before it began; the
\* ones they register run in the next frame
Frame ==
    /\ raf # <<>>
    /\ \E a \in {RunFrame([App EXCEPT !.raf = <<>>], raf, sinceFrame)} : Apply(a)
    /\ sinceFrame' = IF \E k \in 1..Len(raf) : raf[k].kind = "animate"
                     THEN 0 ELSE sinceFrame
    /\ UNCHANGED <<variant, file, fetch, phase, earthquakes, pointerEvents>>

\* every handler.  A run with pointer events has one call of setMode less than
\* a run without (NextModes).
Next ==
    \/ LoadEarthquakeData
    \/ CreateEarthquakeMarkers
    \/ SetupEventListeners
    \/ StartAnimate
    \/ \E mode \in Modes : activation + 1 < MaxActivations /\ ModeButton(mode)
    \/ \E key \in 0..5 :
           /\ (key >= 1 /\ key <= 4) => activation + 2 < MaxActivations
           /\ KeyDown(key)
    \/ \E hit \in 0..Len(markers) : MouseMove(hit) /\ Counted(MaxPointerEvents)
    \/ DoubleClick /\ Counted(MaxPointerEvents)
    \/ \E d \in TimeSteps : Advance(d)
    \/ TimerFire
    \/ Frame

Spec == Init /\ [][Next]_vars

\* the program while the pointer stays still: no mousemove, no dblclick
NextModes ==
    \/ LoadEarthquakeData
    \/ CreateEarthquakeMarkers
    \/ SetupEventListeners
    \/ StartAnimate
    \/ \E mode \in Modes : ModeButton(mode)
    \/ \E key \in 0..5 : KeyDown(key)
    \/ \E d \in TimeSteps : Advance(d)
    \/ TimerFire
    \/ Frame

SpecModes == Init /\ [][NextModes]_vars

\* not in the program: the closures n more entries into Rain register (one
\* fall per marker and entry) fit the bound on the registered closures, next
\* to the render loop's own
RainRoom(n) ==
    Len(timers) + Len(raf) + n * Len(markers)
        + (IF \E k \in 1..Len(raf) : raf[k].kind = "animate" THEN 0 ELSE 1)
            <= MaxRaf

\* the program where every mode change is an entry into Rain, by the button or
\* by key 4
NextRain ==
    \/ LoadEarthquakeData
    \/ CreateEarthquakeMarkers
    \/ SetupEventListeners
    \/ StartAnimate
    \/ RainRoom(1) /\ ModeButton("rain")
    \/ RainRoom(2) /\ KeyDown(4)
    \/ \E d \in TimeSteps : Advance(d)
    \/ TimerFire
    \/ Frame

SpecRain == Init /\ [][NextRain]_vars

\* the same, where init() runs to its end, time passes, due timeouts are called
\* and the browser keeps calling the frame callbacks
SpecRainFair ==
    /\ SpecRain
    /\ WF_vars(LoadEarthquakeData)
    /\ WF_vars(CreateEarthquakeMarkers)
    /\ WF_vars(SetupEventListeners)
    /\ WF_vars(StartAnimate)
    /\ WF_vars(\E d \in TimeSteps : Advance(d))
    /\ WF_vars(TimerFire)
    /\ WF_vars(Frame)

\* the program in Explorer, driven by the pointer alone: no key, no mode button
NextPointer ==
    \/ LoadEarthquakeData
    \/ CreateEarthquakeMarkers
    \/ SetupEventListeners
    \/ StartAnimate
    \/ \E hit \in 0..Len(markers) : MouseMove(hit) /\ Counted(MaxPointerEvents + 1)
    \/ DoubleClick /\ Counted(MaxPointerEvents + 1)
    \/ \E d \in TimeSteps : Advance(d)
    \/ TimerFire
    \/ Frame

SpecPointer == Init /\ [][NextPointer]_vars

\* the same, where init() runs to its end, time passes, due timeouts are called
\* and the browser keeps calling the frame callbacks
SpecPointerFair ==
    /\ SpecPointer
    /\ WF_vars(LoadEarthquakeData)
    /\ WF_vars(CreateEarthquakeMarkers)
    /\ WF_vars(SetupEventListeners)
    /\ WF_vars(StartAnimate)
    /\ WF_vars(\E d \in TimeSteps : Advance(d))
    /\ WF_vars(TimerFire)
    /\ WF_vars(Frame)

\* the program in Explorer, driven by pointer moves and clicks
NextClicks ==
    \/ LoadEarthquakeData
    \/ CreateEarthquakeMarkers
    \/ SetupEventListeners
    \/ StartAnimate
    \/ \E hit \in 0..Len(markers) : MouseMove(hit) /\ UNCHANGED pointerEvents
    \/ Click

SpecClicks == Init /\ [][NextClicks]_vars

\* the state after loadEarthquakeData has read a file of two rows, of any two
\* depths
InitDepth ==
    /\ variant \in Variants
    /\ phase = "loaded"
    /\ fetch = "ok"
    /\ \E d1, d2 \in 0..MaxDepth :
           earthquakes = <<[FileRows[1] EXCEPT !.profundidad = d1],
                           [FileRows[2] EXCEPT !.profundidad = d2]>>
    /\ file = FileOf(earthquakes)
    /\ markers = <<>>
    /\ particleSystems = <<>>
    /\ currentMode = "explorer"
    /\ modeInterval = 0
    /\ historyIndex = 0
    /\ hoveredMarker = 0
    /\ timers = <<>>
    /\ raf = <<>>
    /\ sinceFrame = LifeFull
    /\ activation = 0
    /\ pointerEvents = 0
    /\ clickCount = 0
    /\ achievements = 0
    /\ hoveredClicks = 0
    /\ streak = 0

\* the rest of init(): the markers are built, the listeners installed, the
\* render loop started
NextDepth ==
    \/ CreateEarthquakeMarkers
    \/ SetupEventListeners
    \/ StartAnimate

SpecDepth == InitDepth /\ [][NextDepth]_vars

\* the state after loadEarthquakeData has read a file of two rows, of any two
\* magnitudes
InitMagnitude ==
    /\ variant \in Variants
    /\ phase = "loaded"
    /\ fetch = "ok"
    /\ \E m1, m2 \in 0..MaxMagnitude :
           earthquakes = <<[FileRows[1] EXCEPT !.magnitud = m1],
                           [FileRows[2] EXCEPT !.magnitud = m2]>>
    /\ file = FileOf(earthquakes)
    /\ markers = <<>>
    /\ particleSystems = <<>>
    /\ currentMode = "explorer"
    /\ modeInterval = 0
    /\ historyIndex = 0
    /\ hoveredMarker = 0
    /\ timers = <<>>
    /\ raf = <<>>
    /\ sinceFrame = LifeFull
    /\ activation = 0
    /\ pointerEvents = 0
    /\ clickCount = 0
    /\ achievements = 0
    /\ hoveredClicks = 0
    /\ streak = 0

SpecMagnitude == InitMagnitude /\ [][NextDepth]_vars

\* the program before init() over any file of up to MaxLines such lines
InitLoad ==
    /\ variant \in Variants
    /\ file \in LoadFiles
    /\ phase = "init"
    /\ earthquakes = <<>>
    /\ markers = <<>>
    /\ particleSystems = <<>>
    /\ currentMode = "explorer"
    /\ modeInterval = 0
    /\ historyIndex = 0
    /\ hoveredMarker = 0
    /\ timers = <<>>
    /\ raf = <<>>
    /\ sinceFrame = LifeFull
    /\ activation = 0
    /\ pointerEvents = 0
    /\ fetch = "pending"
    /\ clickCount = 0
    /\ achievements = 0
    /\ hoveredClicks = 0
    /\ streak = 0

\* init() up to the markers: the file is loaded and the markers are built
NextLoad ==
    \/ LoadEarthquakeData
    \/ CreateEarthquakeMarkers

SpecLoad == InitLoad /\ [][NextLoad]_vars

-----------------------------------------------------------------------------
(* Properties of the mode controller *)

\* C1: once setMode has returned, no interval tick or timeout callback started
\* by an earlier mode activation creates a particle burst or changes a marker's
\* scale, opacity or position: a step that fires such a callback leaves markers
\* and particleSystems as they were.
C1_NoStaleTimerActs ==
    [][(TimerFire /\ Stale(App, Head(timers)))
          => (markers' = markers /\ particleSystems' = particleSystems)]_vars

\* C2: immediately after setMode(m), every marker has scale 1 and the position
\* and opacity that the reset followed by the opening of m give it (the resting
\* position, in Rain the start altitude of its index; opacity 0.9, in History
\* 0.1), whatever they were before the call.
C2_ResetThenBehaviour ==
    [][activation' # activation
          => \A i \in 1..Len(markers') :
                 /\ markers'[i].scale = 1000
                 /\ markers'[i].y = IF currentMode' = "rain"
                                    THEN RainStartY(variant, i - 1)
                                    ELSE markers'[i].userData.originalPosition
                 /\ markers'[i].opacity = IF currentMode' = "history"
                                          THEN OpacityLow
                                          ELSE OpacityVisible]_vars

\* C2 happens: Explorer was entered while a marker was falling in Rain, high
\* above its resting position, and every marker is at rest at scale 1
C2_Witness ==
    /\ currentMode = "explorer"
    /\ \E k \in 1..Len(raf) : raf[k].kind = "fall" /\ raf[k].left
    /\ hoveredMarker # 0
    /\ \A i \in 1..Len(markers) :
           /\ markers[i].y = markers[i].userData.originalPosition
           /\ markers[i].scale = 1000

\* C3: calling setMode(m) twice in a row leaves what calling it once leaves.
\* The key handler calls it twice (activation grows by 2 in one step): after
\* such a step the markers, the history index, the pending timers and the
\* per-frame closures, compared as multisets, are those of one call.
C3_SetModeIdempotent ==
    [][activation' = activation + 2
          => \E rolls \in RollsFor(currentMode', Len(markers)) :
                LET once == setMode(App, currentMode', rolls)
                    Task(t) == [f \in DOMAIN t \ {"gen", "left"} |-> t[f]]
                    Count(q, x) ==
                        Cardinality({k \in 1..Len(q) : Task(q[k]) = x})
                    Same(p, q) ==
                        /\ Len(p) = Len(q)
                        /\ \A k \in 1..Len(p) :
                               Count(p, Task(p[k])) = Count(q, Task(p[k]))
                IN  /\ markers' = once.markers
                    /\ historyIndex' = once.historyIndex
                    /\ modeInterval' = once.modeInterval
                    /\ Same(timers', once.timers)
                    /\ Same(raf', once.raf)]_vars

\* C4: exactly one of the four modes is current at every moment, it is Explorer
\* at the start, and it changes only in a step that calls setMode.
C4_OneModeSetOnlyBySetMode ==
    /\ currentMode = "explorer"
    /\ [](currentMode \in Modes)
    /\ [][currentMode' # currentMode => activation' > activation]_vars

\* C4 happens: the mode has been changed, by key or button, and timers,
\* closures and pointer events have run since
C4_Witness ==
    /\ currentMode = "rain"
    /\ activation >= 2
    /\ hoveredMarker # 0
    /\ particleSystems # <<>>

\* C5: once the markers are built there is one marker per loaded record, in load
\* order, and no mode switch, timer, animation or pointer event adds or removes
\* one.
C5_OneMarkerPerRecord ==
    IF phase \in {"init", "loaded"}
    THEN markers = <<>>
    ELSE /\ Len(markers) = Len(earthquakes)
         /\ \A i \in 1..Len(markers) : markers[i].userData.quake = earthquakes[i]

\* C5 happens: two records were loaded and modes, bursts and pointer events
\* have acted on their markers
C5_Witness ==
    /\ phase = "running"
    /\ Len(earthquakes) = 2
    /\ activation >= 2
    /\ hoveredMarker # 0
    /\ particleSystems # <<>>

\* C6: while the mode is History the ticks reveal the markers in load order:
\* a tick with historyIndex = i below the marker count restores the opacity of
\* marker i + 1 alone, appends one burst for it and makes the index i + 1; a
\* tick with the index at the marker count dims every marker, sets the index to
\* 0 and creates no burst; and no other step of that activation changes the
\* index or an opacity.
C6_HistoryInLoadOrder ==
    [][(currentMode = "history" /\ activation' = activation)
          => IF TimerFire /\ Head(timers).kind = "historyTick"
             THEN IF historyIndex < Len(markers)
                  THEN /\ historyIndex' = historyIndex + 1
                       /\ markers' = [markers EXCEPT ![historyIndex + 1].opacity =
                                                         OpacityVisible]
                       /\ Len(particleSystems') = Len(particleSystems) + 1
                       /\ SubSeq(particleSystems', 1, Len(particleSystems))
                              = particleSystems
                       /\ particleSystems'[Len(particleSystems')].of
                              = historyIndex + 1
                  ELSE /\ historyIndex' = 0
                       /\ \A i \in 1..Len(markers') :
                              markers'[i].opacity = OpacityLow
                       /\ particleSystems' = particleSystems
             ELSE /\ historyIndex' = historyIndex
                  /\ \A i \in 1..Len(markers) :
                         markers'[i].opacity = markers[i].opacity]_vars

\* C6 happens: a full cycle over two markers has been played and the tick after
\* it has wrapped the index to 0 and dimmed both, while the burst of the second
\* reveal is still alive
C6_Witness ==
    /\ currentMode = "history"
    /\ Len(markers) = 2
    /\ historyIndex = 0
    /\ \E k \in 1..Len(particleSystems) :
           particleSystems[k].by = "history" /\ particleSystems[k].of = 2
    /\ \A i \in 1..Len(markers) : markers[i].opacity = OpacityLow

\* C7: from the entry of Rain until the next call of setMode no marker's
\* vertical position ever increases, and a marker that has come to its resting
\* position stays there.
C7_RainFallMonotone ==
    [][(currentMode = "rain" /\ activation' = activation)
          => \A i \in 1..Len(markers) :
                 /\ markers'[i].y <= markers[i].y
                 /\ markers[i].y = markers[i].userData.originalPosition
                        => markers'[i].y = markers[i].y]_vars

\* C8: when setMode switches away from Rain while a marker is falling, the
\* marker is at its resting position right after the switch, and the next
\* resumption of its fall closure aborts: the closure is not registered again,
\* no Rain burst is added for the marker, and the marker is at its resting
\* position after the frame.
C8_FallAbortsAfterModeChange ==
    /\ [][(activation' # activation /\ currentMode' # "rain")
             => \A i \in 1..Len(markers') :
                    markers'[i].y = markers'[i].userData.originalPosition]_vars
    /\ [][Frame
             => \A k \in 1..Len(raf) :
                    (raf[k].kind = "fall" /\ raf[k].left)
                        => LET i == raf[k].marker
                               Bursts(ps) ==
                                   {j \in 1..Len(ps) :
                                        ps[j].by = "rain" /\ ps[j].of = i}
                           IN  /\ \A j \in 1..Len(raf') :
                                      ~(/\ raf'[j].kind = "fall"
                                        /\ raf'[j].marker = i
                                        /\ raf'[j].gen = raf[k].gen)
                               /\ Cardinality(Bursts(particleSystems'))
                                      <= Cardinality(Bursts(particleSystems))
                               /\ markers'[i].y =
                                      markers'[i].userData.originalPosition]_vars

\* C9: a Chaos pulse closure checks the mode each time it is resumed: in a frame
\* outside Chaos no pulse closure changes a scale or registers itself again, so
\* none is left after the frame; in a frame in Chaos every pulse closure
\* registers itself again.
C9_PulseStopsOutsideChaos ==
    [][Frame
          => IF currentMode # "chaos"
             THEN /\ \A j \in 1..Len(raf') : raf'[j].kind # "pulse"
                  /\ \A i \in 1..Len(markers) :
                         markers'[i].scale = markers[i].scale
             ELSE \A k \in 1..Len(raf) :
                      raf[k].kind = "pulse"
                          => \E j \in 1..Len(raf') : raf'[j] = raf[k]]_vars

\* C9 happens: Explorer was entered from Chaos (a Chaos burst timeout of the
\* activation before is still pending), a frame has just run, and no pulse
\* closure is left
C9_Witness ==
    /\ currentMode = "explorer"
    /\ phase = "running"
    /\ sinceFrame = 0
    /\ markers # <<>>
    /\ \E k \in 1..Len(timers) :
           timers[k].kind = "chaosBurst" /\ timers[k].gen = activation - 1
    /\ \A j \in 1..Len(raf) : raf[j].kind # "pulse"

\* C10: every burst has floor(magnitude * 100) particles, where magnitude is
\* the record's magnitude for a History tick and a Rain impact, half of it for
\* a Chaos burst and twice it for a double click (magnitud is in hundredths).
C10_ParticleCount ==
    \A k \in 1..Len(particleSystems) :
        LET b == particleSystems[k]
            m == earthquakes[b.of].magnitud
        IN  /\ b.by \in {"history", "rain", "chaos", "dblclick"}
            /\ b.count = IF b.by = "chaos" THEN m \div 2
                         ELSE IF b.by = "dblclick" THEN 2 * m
                         ELSE m

\* C10 happens: a Chaos burst of a record of odd magnitude (0.85: 42 particles)
\* and a double-click burst are alive together
C10_Witness ==
    /\ \E k \in 1..Len(particleSystems) :
           /\ particleSystems[k].by = "chaos"
           /\ earthquakes[particleSystems[k].of].magnitud % 2 = 1
    /\ \E k \in 1..Len(particleSystems) : particleSystems[k].by = "dblclick"

-----------------------------------------------------------------------------
(* Properties of the pointer handlers *)

\* C12: at most one marker is hovered; in every state the hovered marker has
\* the emphasized scale; a pointer move makes the hovered marker the nearest
\* hit, or none, and returns the marker that was hovered before to scale 1; and
\* the emphasis of the hovered marker stays until the next pointer move.
C12_HoveredIsEmphasized ==
    /\ [](/\ hoveredMarker \in 0..Len(markers)
          /\ hoveredMarker # 0
                 => markers[hoveredMarker].scale = HoverScale(variant))
    /\ [][\A hit \in 0..Len(markers) :
              MouseMove(hit)
                  => /\ hoveredMarker' = hit
                     /\ (hoveredMarker # 0 /\ hoveredMarker # hit)
                            => markers'[hoveredMarker].scale = 1000]_vars
    /\ [][(hoveredMarker # 0 /\ ~\E hit \in 0..Len(markers) : MouseMove(hit))
              => /\ hoveredMarker' = hoveredMarker
                 /\ markers'[hoveredMarker].scale
                        = markers[hoveredMarker].scale]_vars

-----------------------------------------------------------------------------
(* Properties of the modes over an empty record set *)

\* C18: with no marker, setMode('history') completes: the mode is History,
\* historyIndex is 0 and the interval is armed; and every tick of that interval
\* does nothing: it adds no burst, changes no marker, registers no closure and
\* leaves historyIndex at 0, so that historyIndex is 0 in every state of a run
\* without markers.
C18_EmptyHistoryIsNoOp ==
    /\ [][(markers = <<>> /\ activation' # activation /\ currentMode' = "history")
             => /\ historyIndex' = 0
                /\ modeInterval' # 0
                /\ \E k \in 1..Len(timers') :
                       /\ timers'[k].kind = "historyTick"
                       /\ timers'[k].id = modeInterval'
                       /\ timers'[k].rem = HistoryPeriod(variant)]_vars
    /\ [][(markers = <<>> /\ TimerFire /\ Head(timers).kind = "historyTick")
             => /\ historyIndex' = 0
                /\ markers' = markers
                /\ particleSystems' = particleSystems
                /\ raf' = raf
                /\ currentMode' = currentMode
                /\ Len(timers') = Len(timers)]_vars
    /\ [](markers = <<>> => (historyIndex = 0 /\ particleSystems = <<>>))

\* C18 happens: the fetch failed, History was entered over no marker, and a
\* tick of its interval is due
C18_Witness ==
    /\ fetch = "failed"
    /\ phase = "running"
    /\ markers = <<>>
    /\ currentMode = "history"
    /\ TimerDue
    /\ Head(timers).kind = "historyTick"
    /\ Head(timers).id = modeInterval

-----------------------------------------------------------------------------
(* Properties of the key handler *)

\* C19: a key 1..4 makes the mode Explorer, History, Chaos or Rain and leaves
\* what one entry into that mode leaves: the markers, the history index, the
\* bursts, and the pending timers and per-frame closures (compared as
\* multisets) are those of one call of setMode; any other key changes neither
\* the mode nor a marker nor a scheduled task.
C19_KeyIsOneModeEntry ==
    [][\A key \in 0..5 :
           KeyDown(key)
               => IF key >= 1 /\ key <= 4
                  THEN /\ currentMode' = <<"explorer", "history", "chaos", "rain">>[key]
                       /\ \E rolls \in RollsFor(currentMode', Len(markers)) :
                             LET entry == setMode(App, currentMode', rolls)
                                 Task(t) == [f \in DOMAIN t \ {"gen", "left"} |-> t[f]]
                                 Count(q, x) ==
                                     Cardinality({k \in 1..Len(q) : Task(q[k]) = x})
                                 Same(p, q) ==
                                     /\ Len(p) = Len(q)
                                     /\ \A k \in 1..Len(p) :
                                            Count(p, Task(p[k])) = Count(q, Task(p[k]))
                             IN  /\ markers' = entry.markers
                                 /\ historyIndex' = entry.historyIndex
                                 /\ particleSystems' = entry.particleSystems
                                 /\ hoveredMarker' = entry.hoveredMarker
                                 /\ Same(timers', entry.timers)
                                 /\ Same(raf', entry.raf)
                  ELSE UNCHANGED <<currentMode, markers, modeInterval, historyIndex,
                                   particleSystems, timers, raf>>]_vars

-----------------------------------------------------------------------------
(* Properties of the pure functions of a record *)

C15_DoubleClickBurstsAtItsMarker ==
    /\ [][(DoubleClick /\ hoveredMarker # 0)
             => /\ Len(timers') = Len(timers) + 1
                /\ \E k \in 1..Len(timers') :
                       timers'[k] = Timer("dblBurst", 0, hoveredMarker,
                                          DblClickDelay(variant), 0)
                /\ \E j \in 1..Len(raf') :
                       /\ raf'[j].kind = "move"
                       /\ raf'[j].marker = hoveredMarker
                       /\ raf'[j].duration = DblClickDelay(variant)
                       /\ raf'[j].elapsed = 0]_vars
    /\ [][(TimerFire /\ Head(timers).kind = "dblBurst")
             => LET M == Head(timers).marker
                    quake == markers[M].userData.quake
                IN  particleSystems' =
                        Append(particleSystems,
                               [ count  |-> 2 * quake.magnitud,
                                 color  |-> getColorByDepth(quake.profundidad),
                                 origin |-> markers[M].userData.originalPosition,
                                 life   |-> LifeFull,
                                 by     |-> "dblclick",
                                 of     |-> M ])]_vars

\* C16: no handler throws: in particular the timeout of a double click, which
\* reads this.hoveredMarker.userData when it fires, never finds hoveredMarker
\* null.
C16_NoHandlerThrows ==
    [][(TimerFire /\ Head(timers).kind = "dblBurst") => ~dblBurstThrows(App)]_vars

-----------------------------------------------------------------------------
(* Properties of the particle bursts *)

\* C11: every burst is removed in the end.  A call of animate with deltaTime
\* dt lowers the life of every burst by dt / 2 (the opacity is set to the life,
\* which is the one number the model keeps), removes in that same call the
\* bursts whose life has come to 0 or below and keeps the others in their
\* order; a frame without animate changes no burst; any other step at most
\* appends bursts.  While time passes and the frames keep coming, the set of
\* bursts is empty from some moment on once the pointer events have ended: no
\* burst stays, and none is updated after its removal.
C11_BurstsAreRemoved ==
    /\ [][IF StartAnimate \/ (Frame /\ \E k \in 1..Len(raf) : raf[k].kind = "animate")
          THEN LET lowered == [k \in 1..Len(particleSystems) |->
                                  [particleSystems[k] EXCEPT !.life = @ - sinceFrame]]
               IN  particleSystems' = SelectSeq(lowered, LAMBDA b : b.life > 0)
          ELSE /\ Len(particleSystems') >= Len(particleSystems)
               /\ SubSeq(particleSystems', 1, Len(particleSystems))
                      = particleSystems]_vars
    /\ [](\A k \in 1..Len(particleSystems) :
              particleSystems[k].life > 0 /\ particleSystems[k].life <= LifeFull)
    /\ <>[](particleSystems = <<>>)

\* C11 happens: the frames have lowered the life of a double-click burst from 1
\* to 0.25, and the frame after the next 750 ms removes it
C11_Witness ==
    /\ phase = "running"
    /\ sinceFrame = 0
    /\ Len(particleSystems) = 1
    /\ particleSystems[1].by = "dblclick"
    /\ particleSystems[1].life = LifeFull - 2 * 750

-----------------------------------------------------------------------------
(* Properties of the click counter *)

C14_TenInARow ==
    [][achievements' > achievements => streak' >= 10]_vars

-----------------------------------------------------------------------------
(* Properties of init() *)

\* C17: when the fetch or the read of the dataset throws, loadEarthquakeData
\* catches the error and the record list stays empty; init() goes on: it builds
\* no marker, installs the listeners and starts the render loop; and the load
\* is not tried again: once it has ended, its outcome and the record list never
\* change.
C17_FailedLoadLeavesNoRecord ==
    /\ [][(LoadEarthquakeData /\ fetch' = "failed")
             => (earthquakes' = <<>> /\ phase' = "loaded")]_vars
    /\ [](fetch = "failed" => (earthquakes = <<>> /\ markers = <<>>))
    /\ [][fetch # "pending"
             => (fetch' = fetch /\ earthquakes' = earthquakes)]_vars
    /\ [][fetch = "failed"
             => \/ phase' = phase
                \/ phase = "loaded" /\ phase' = "built" /\ markers' = <<>>
                \/ phase = "built" /\ phase' = "listening"
                \/ phase = "listening" /\ phase' = "running"]_vars
    /\ (fetch = "failed")
           ~> (/\ phase = "running"
               /\ markers = <<>>
               /\ \E k \in 1..Len(raf) : raf[k].kind = "animate")

\* C17 happens: the fetch failed, init() has run to its end, the render loop is
\* registered and there is no record and no marker
C17_Witness ==
    /\ fetch = "failed"
    /\ phase = "running"
    /\ earthquakes = <<>>
    /\ markers = <<>>
    /\ \E k \in 1..Len(raf) : raf[k].kind = "animate"

\* C21: the size of a marker does not decrease with the magnitude: of two
\* markers, the one whose record has the smaller or equal magnitude has the
\* smaller or equal size.
C21_SizeMonotoneInMagnitude ==
    \A i, j \in 1..Len(markers) :
        markers[i].userData.quake.magnitud <= markers[j].userData.quake.magnitud
            => markers[i].userData.originalScale <= markers[j].userData.originalScale

\* C21 happens: markers were built for a record of magnitude 0.99 and one of
\* magnitude 1.0, which differ in size
C21_Witness ==
    /\ Len(markers) = 2
    /\ markers[1].userData.quake.magnitud = 99
    /\ markers[2].userData.quake.magnitud = 100
    /\ markers[1].userData.originalScale < markers[2].userData.originalScale

-----------------------------------------------------------------------------
(* Properties of the markers *)

\* C23: once the markers are built, no step changes the record, the base
\* colour, the base size or the cached resting position of a marker, and no
\* step adds or removes a marker: userData is what createEarthquakeMarkers
\* computed from the record.
C23_UserDataFixed ==
    /\ [][phase # "loaded"
             => /\ Len(markers') = Len(markers)
                /\ \A i \in 1..Len(markers) :
                       markers'[i].userData = markers[i].userData]_vars
    /\ [](phase \notin {"init", "loaded"}
             => /\ Len(markers) = Len(earthquakes)
                /\ \A i \in 1..Len(markers) :
                       /\ markers[i].userData.quake = earthquakes[i]
                       /\ markers[i].userData.originalColor
                              = getColorByDepth(earthquakes[i].profundidad)
                       /\ markers[i].userData.originalScale
                              = MarkerSize(variant, earthquakes[i])
                       /\ markers[i].userData.originalPosition
                              = RestY(variant, earthquakes[i]))

\* C23 happens: a mode was entered, the pointer hovers a marker, a burst is
\* alive and a marker is away from its resting position
C23_Witness ==
    /\ activation >= 1
    /\ hoveredMarker # 0
    /\ particleSystems # <<>>
    /\ \E i \in 1..Len(markers) :
           markers[i].y # markers[i].userData.originalPosition

\* C24: whenever the mode is Explorer, every marker is at its resting position
\* with opacity 0.9, and every marker but the hovered one has scale 1, whatever
\* modes came before and whatever timers and closures of theirs are pending.
C24_ExplorerIsIdentity ==
    currentMode = "explorer"
        => \A i \in 1..Len(markers) :
               /\ markers[i].y = markers[i].userData.originalPosition
               /\ markers[i].opacity = OpacityVisible
               /\ i # hoveredMarker => markers[i].scale = 1000

\* C24 happens: Explorer was entered from another mode, a timer or a closure of
\* that mode is still pending, a frame has run since, and a marker is hovered
C24_Witness ==
    /\ currentMode = "explorer"
    /\ activation >= 2
    /\ phase = "running"
    /\ sinceFrame = 0
    /\ hoveredMarker # 0
    /\ \/ \E k \in 1..Len(timers) : timers[k].gen # 0
       \/ \E k \in 1..Len(raf) : raf[k].kind \in {"pulse", "fall"}

-----------------------------------------------------------------------------
(* Properties of the order of init() *)

\* C25: init() is ordered.  The markers are built in one step, after
\* loadEarthquakeData has ended (with records or with a caught error); the
\* listeners are installed after that step and the render loop is started
\* after the listeners; so a step that calls setMode, a pointer handler, a
\* timer callback or a frame callback is taken only when the marker set is
\* final.
C25_InitIsOrdered ==
    /\ [][\/ phase' = phase
          \/ phase = "init" /\ phase' = "loaded" /\ fetch' # "pending"
          \/ phase = "loaded" /\ phase' = "built"
          \/ phase = "built" /\ phase' = "listening"
          \/ phase = "listening" /\ phase' = "running"]_vars
    /\ [][markers' # markers
             => \/ phase = "loaded" /\ phase' = "built" /\ fetch # "pending"
                \/ /\ phase \in {"listening", "running"}
                   /\ Len(markers') = Len(markers)]_vars
    /\ [][(\/ activation' # activation
           \/ hoveredMarker' # hoveredMarker
           \/ pointerEvents' # pointerEvents
           \/ clickCount' # clickCount
           \/ timers' # timers
           \/ raf' # raf
           \/ particleSystems' # particleSystems)
             => /\ phase \in {"listening", "running"}
                /\ Len(markers') = Len(earthquakes)
                /\ earthquakes' = earthquakes]_vars
    /\ []((\E k \in 1..Len(raf) : raf[k].kind = "animate") => phase = "running")

\* C25 happens: init() has run to its end over two records, and a mode change,
\* a pointer event and a frame have followed
C25_Witness ==
    /\ phase = "running"
    /\ Len(markers) = 2
    /\ activation >= 1
    /\ pointerEvents >= 1
    /\ sinceFrame = 0
    /\ particleSystems # <<>>

-----------------------------------------------------------------------------
(* Properties of the tasks of Chaos and Rain *)

\* C26: in every state at most one Chaos pulse closure is registered for each
\* marker.
C26_OnePulsePerMarker ==
    \A i \in 1..Len(markers) :
        Cardinality({k \in 1..Len(raf) :
                         raf[k].kind = "pulse" /\ raf[k].marker = i}) <= 1

\* C27: between an entry into Rain and the next call of setMode every marker
\* fires one impact burst: a marker never has more than one fall pending (a
\* start timeout or a fall closure), a frame adds at most one Rain burst for a
\* marker, and after the frame that adds it the marker is at its resting
\* position and has no fall closure and no start timeout left.
C27_OneImpactPerMarker ==
    /\ [](currentMode = "rain"
             => \A i \in 1..Len(markers) :
                    Cardinality({k \in 1..Len(raf) :
                                     raf[k].kind = "fall" /\ raf[k].marker = i})
                      + Cardinality({k \in 1..Len(timers) :
                                         /\ timers[k].kind = "rainStart"
                                         /\ timers[k].marker = i}) <= 1)
    /\ [][(Frame /\ currentMode = "rain")
             => \A i \in 1..Len(markers) :
                    LET Impacts(ps) ==
                            Cardinality({k \in 1..Len(ps) :
                                             /\ ps[k].by = "rain"
                                             /\ ps[k].of = i
                                             /\ ps[k].life = LifeFull})
                    IN  /\ Impacts(particleSystems') <= Impacts(particleSystems) + 1
                        /\ Impacts(particleSystems') > Impacts(particleSystems)
                               => /\ markers'[i].y
                                         = markers'[i].userData.originalPosition
                                  /\ \A k \in 1..Len(raf') :
                                         ~(raf'[k].kind = "fall"
                                             /\ raf'[k].marker = i)
                                  /\ \A k \in 1..Len(timers') :
                                         ~(timers'[k].kind = "rainStart"
                                             /\ timers'[k].marker = i)]_vars

\* C28: while the mode stays Rain, every marker comes to rest: a fall closure
\* resumed after its fall duration has passed is not registered again; and as
\* time passes, the due timeouts are called and the frames keep coming, a state
\* is reached where every marker is at its resting position and has no fall
\* closure and no start timeout pending, and from some moment on every state is
\* such.
C28_RainComesToRest ==
    /\ [][(Frame /\ currentMode = "rain")
             => \A k \in 1..Len(raf) :
                    (/\ raf[k].kind = "fall"
                     /\ raf[k].elapsed
                            = FallElapsedCap(variant,
                                             markers[raf[k].marker].userData.quake))
                        => \A j \in 1..Len(raf') : raf'[j] # raf[k]]_vars
    /\ (currentMode = "rain")
            ~> \A i \in 1..Len(markers) :
                   /\ markers[i].y = markers[i].userData.originalPosition
                   /\ \A k \in 1..Len(raf) :
                          ~(raf[k].kind = "fall" /\ raf[k].marker = i)
                   /\ \A k \in 1..Len(timers) :
                          ~(timers[k].kind = "rainStart" /\ timers[k].marker = i)
    /\ <>[](/\ phase = "running"
            /\ \A i \in 1..Len(markers) :
                   /\ markers[i].y = markers[i].userData.originalPosition
                   /\ \A k \in 1..Len(raf) :
                          ~(raf[k].kind = "fall" /\ raf[k].marker = i)
                   /\ \A k \in 1..Len(timers) :
                          ~(timers[k].kind = "rainStart" /\ timers[k].marker = i))

\* C28 happens: Rain was entered over two markers, both have come to rest, and
\* the impact burst of the second is still alive
C28_Witness ==
    /\ currentMode = "rain"
    /\ Len(markers) = 2
    /\ timers = <<>>
    /\ \A k \in 1..Len(raf) : raf[k].kind = "animate"
    /\ \A i \in 1..Len(markers) :
           markers[i].y = markers[i].userData.originalPosition
    /\ \E k \in 1..Len(particleSystems) :
           particleSystems[k].by = "rain" /\ particleSystems[k].of = 2

\* C29: in Rain the markers start falling in the order of their indices: a call
\* of setMode that enters Rain arms for the marker of index i a start timeout
\* of i times the stagger; when a start timeout is called in Rain, no marker of
\* a smaller index has a start timeout pending; and a marker whose start
\* timeout of the latest entry is pending is at its start height.
C29_RainStartsInIndexOrder ==
    /\ [][(activation' # activation /\ currentMode' = "rain")
             => \A i \in 1..Len(markers') :
                    \E k \in 1..Len(timers') :
                        timers'[k] = Timer("rainStart", 0, i,
                                           (i - 1) * RainStagger(variant),
                                           activation')]_vars
    /\ [][(/\ TimerFire
           /\ currentMode = "rain"
           /\ Head(timers).kind = "rainStart")
             => \A k \in 1..Len(timers) :
                    timers[k].kind = "rainStart"
                        => timers[k].marker >= Head(timers).marker]_vars
    /\ [](currentMode = "rain"
             => \A k \in 1..Len(timers) :
                    (timers[k].kind = "rainStart" /\ timers[k].gen = activation)
                        => markers[timers[k].marker].y
                               = RainStartY(variant, timers[k].marker - 1))

\* C30: the History interval is live exactly when the mode is History:
\* modeInterval is set if and only if the mode is History; in History one tick
\* timer is pending and it is the one modeInterval names, outside History none
\* is; and a tick is only ever called while the mode is History.
C30_IntervalLiveIffHistory ==
    /\ [](/\ modeInterval # 0 <=> currentMode = "history"
          /\ Cardinality({k \in 1..Len(timers) : timers[k].kind = "historyTick"})
                 = IF currentMode = "history" THEN 1 ELSE 0
          /\ \A k \in 1..Len(timers) :
                 timers[k].kind = "historyTick" => timers[k].id = modeInterval)
    /\ [][(TimerFire /\ Head(timers).kind = "historyTick")
             => currentMode = "history"]_vars

\* C30 happens: History was left for Explorer while the burst of one of its
\* ticks is still alive, and neither an interval id nor a tick timer is left
C30_Witness ==
    /\ currentMode = "explorer"
    /\ activation >= 2
    /\ modeInterval = 0
    /\ \E k \in 1..Len(particleSystems) : particleSystems[k].by = "history"
    /\ \A k \in 1..Len(timers) : timers[k].kind # "historyTick"

-----------------------------------------------------------------------------
(* Properties of the loader *)

\* C22: the loader skips the header, drops the lines that hold white space
\* only, and yields one record per remaining line, in the order of the file,
\* with the latitude, longitude, depth and magnitude its 4th to 7th fields
\* write: after a successful load this.earthquakes is the sequence of the
\* records the lines of the file were written from.  Built from a table of
\* three rows of depths 10, 40, 100 and magnitudes 1.0, 2.0, 3.4, the markers
\* are three, their colours are those of the shallow, the middle and the deep
\* band, and their sizes increase strictly.
C22_LoaderYieldsTheRows ==
    /\ (fetch = "ok" /\ phase # "init") => earthquakes = RowsOf(file)
    /\ (fetch = "ok" /\ phase = "built" /\ RowsOf(file) = ScenarioRows)
           => /\ Len(markers) = 3
              /\ markers[1].userData.originalColor = "ff4444"
              /\ markers[2].userData.originalColor = "ffaa00"
              /\ markers[3].userData.originalColor = "4444ff"
              /\ markers[1].userData.originalScale < markers[2].userData.originalScale
              /\ markers[2].userData.originalScale < markers[3].userData.originalScale

\* C22 happens: a file with CRLF line ends that holds the three rows of the
\* table and ends with a line end was loaded, and three markers were built
C22_Witness ==
    /\ fetch = "ok"
    /\ phase = "built"
    /\ file = [k \in 1..3 |-> FileLine(<<ScenarioRows[k]>>, <<"\r">>)]
                  \o <<FileLine(<<>>, <<>>)>>
    /\ Len(earthquakes) = 3
    /\ Len(markers) = 3
    /\ markers[1].userData.originalScale < markers[3].userData.originalScale

-----------------------------------------------------------------------------
(* Properties of the History replay *)

\* C31: while the mode is History the index is between 0 and the number of
\* markers, the markers before the index have opacity 0.9 and the markers from
\* the index on have opacity 0.1; a tick moves the index one step round the
\* cycle 0, 1, ..., N, 0 of N + 1 ticks, and the tick taken at N adds no burst
\* and leaves every marker at the low opacity.
C31_RevealedBelowIndex ==
    /\ [](currentMode = "history"
             => /\ 0 <= historyIndex
                /\ historyIndex <= Len(markers)
                /\ \A i \in 1..Len(markers) :
                       markers[i].opacity = IF i <= historyIndex
                                            THEN OpacityVisible
                                            ELSE OpacityLow)
    /\ [][(TimerFire /\ Head(timers).kind = "historyTick")
             => /\ historyIndex' = (historyIndex + 1) % (Len(markers) + 1)
                /\ historyIndex = Len(markers)
                       => /\ particleSystems' = particleSystems
                          /\ \A i \in 1..Len(markers') :
                                 markers'[i].opacity = OpacityLow]_vars

\* C31 happens: in History over two markers, with one of them hovered, the
\* first has been revealed and the second has not
C31_Witness ==
    /\ currentMode = "history"
    /\ Len(markers) = 2
    /\ hoveredMarker # 0
    /\ historyIndex = 1
    /\ markers[1].opacity = OpacityVisible
    /\ markers[2].opacity = OpacityLow

-----------------------------------------------------------------------------
(* Properties of the burst collection *)

\* C32: particleSystems has no cap: a History tick that reveals a marker and
\* the timeout of a Chaos burst push one burst of full life behind the bursts
\* that are active, however many those are, so that triggers with no frame in
\* between make the collection as long as there are triggers.
C32_BurstsHaveNoCap ==
    [][(/\ TimerFire
        /\ \/ Head(timers).kind = "chaosBurst"
           \/ Head(timers).kind = "historyTick" /\ historyIndex < Len(markers))
          => /\ Len(particleSystems') = Len(particleSystems) + 1
             /\ SubSeq(particleSystems', 1, Len(particleSystems)) = particleSystems
             /\ particleSystems'[Len(particleSystems')].life = LifeFull]_vars

\* C32 happens: History ticks have pushed as many bursts as the model has room
\* for, and no frame has run since the first: every one has its full life
C32_Witness ==
    /\ currentMode = "history"
    /\ Len(particleSystems) = MaxBursts
    /\ \A k \in 1..Len(particleSystems) :
           /\ particleSystems[k].by = "history"
           /\ particleSystems[k].life = LifeFull

\* C33: the bursts belong to the frame loop alone.  Between frames every burst
\* has a life above 0 and at most 1.  A step that is not a frame removes and
\* changes no burst, and the bursts it pushes have life 1.  A frame in which
\* animate runs, and the first call of animate by init, takes the time since
\* the last frame from the life of every burst once, removes the bursts whose
\* life is then 0 or less and keeps the others in their order, ahead of the
\* bursts pushed during the frame; a frame without animate removes and changes
\* none.
C33_BurstsOwnedByFrameLoop ==
    /\ [](\A k \in 1..Len(particleSystems) :
             /\ particleSystems[k].life > 0
             /\ particleSystems[k].life <= LifeFull)
    /\ [][(~Frame /\ ~StartAnimate)
             => /\ Len(particleSystems') >= Len(particleSystems)
                /\ SubSeq(particleSystems', 1, Len(particleSystems))
                       = particleSystems
                /\ \A k \in (Len(particleSystems) + 1)..Len(particleSystems') :
                       particleSystems'[k].life = LifeFull]_vars
    /\ [][(Frame \/ StartAnimate)
             => LET d    == IF \/ phase' # phase
                               \/ \E k \in 1..Len(raf) : raf[k].kind = "animate"
                            THEN sinceFrame ELSE 0
                    aged == [k \in 1..Len(particleSystems) |->
                                [particleSystems[k] EXCEPT !.life = @ - d]]
                    kept == SelectSeq(aged, LAMBDA b : b.life > 0)
                IN  /\ Len(particleSystems') >= Len(kept)
                    /\ SubSeq(particleSystems', 1, Len(kept)) = kept
                    /\ \A k \in (Len(kept) + 1)..Len(particleSystems') :
                           particleSystems'[k].life \in {LifeFull, LifeFull - d}]_vars

\* C33 happens: a frame has just removed one burst and kept a younger one,
\* whose life it has reduced
C33_Witness ==
    /\ phase = "running"
    /\ sinceFrame = 0
    /\ Len(particleSystems) = 1
    /\ particleSystems[1].of = 2
    /\ particleSystems[1].life < LifeFull
    /\ historyIndex = 2

-----------------------------------------------------------------------------
(* Properties of the Chaos bursts *)

\* C34: a call of setMode that enters Chaos arms for every marker at most one
\* burst timeout, of a delay below the window of 3000; when such a timeout is
\* called the mode is Chaos, and it pushes one burst at its marker with half
\* the marker's magnitude (magnitud / 2 particles, magnitud in hundredths).
C34_ChaosBurstOnlyInChaos ==
    /\ [][(activation' # activation /\ currentMode' = "chaos")
             => \A i \in 1..Len(markers') :
                    LET armed == {k \in 1..Len(timers') :
                                      /\ timers'[k].kind = "chaosBurst"
                                      /\ timers'[k].marker = i
                                      /\ timers'[k].gen = activation'}
                    IN  /\ Cardinality(armed) <= 1
                        /\ \A k \in armed : timers'[k].rem < ChaosWindow]_vars
    /\ [][(TimerFire /\ Head(timers).kind = "chaosBurst")
             => /\ currentMode = "chaos"
                /\ Len(particleSystems') = Len(particleSystems) + 1
                /\ LET b == particleSystems'[Len(particleSystems')]
                       i == Head(timers).marker
                   IN  /\ b.of = i
                       /\ b.origin = markers[i].userData.originalPosition
                       /\ b.count = markers[i].userData.quake.magnitud \div 2]_vars

-----------------------------------------------------------------------------
(* Properties of the camera moves of History (planet variant) *)

\* C35: the camera moves that History ticks start neither overlap nor outlive
\* the mode: at most one move closure of a tick is registered at any moment, and
\* a frame that comes while the mode is not History resumes none, so that none
\* sets the camera position then.
C35_OneCameraMoveInHistory ==
    /\ [](Cardinality({k \in 1..Len(raf) :
                           raf[k].kind = "move" /\ raf[k].gen # 0}) <= 1)
    /\ [][(Frame /\ currentMode # "history")
             => \A k \in 1..Len(raf) :
                    ~(raf[k].kind = "move" /\ raf[k].gen # 0)]_vars

====
